---- MODULE Spec2Model ----
(***************************************************************************)
(* FinancialFileFetcher: the table pipeline of FinancialFileFetcher.py.    *)
(*                                                                         *)
(*   get_table_info   (lines 150-207)  index of the tables of a statement  *)
(*   get_table_url    (lines 251-283)  lookup of one table's url by name   *)
(*   display_table    (lines 285-428)  fetch, classify rows, coerce the    *)
(*                                     numbers, merge, rename              *)
(*                                                                         *)
(* A text is a sequence of one-character strings, so that strip(), the     *)
(* regex replacements and float() are computed and not assumed.  Every     *)
(* cell value, index key and column label is a tagged record (Str, Num,    *)
(* NaNV, Pos), which keeps a text "NaN" apart from the float nan and a     *)
(* positional key apart from a label.  The email argument only fills the   *)
(* request headers and is left out.                                        *)
(***************************************************************************)
EXTENDS Integers, Sequences, FiniteSets, TLC

VARIABLES
    \* ---- display_table(fs_url, table_name, email) ----
    pc,              \* position in display_table
    fs_url,          \* argument fs_url: a url, as its sequence of path segments
    table_name,      \* argument table_name
    table_url,       \* local table_url (line 335)
    requested,       \* the urls handed to requests.get, in call order
    out,             \* the lines printed so far
    rows,            \* report_soup.table.find_all('tr') of the fetched document
    index,           \* loop variable of line 352 (0-based)
    statement_data,  \* [headers, sections, data] (lines 339-342)
    df,              \* local df
    sections_df,     \* local sections_df
    ret_df,          \* local ret_df
    result,          \* what display_table returned (or the exception it raised)
    \* ---- direct calls of get_table_info / get_table_url ----
    api_pc,          \* "ready" before the call, "done" after it
    api_fn,          \* the function called
    api_url,         \* argument url / fs_url
    api_name,        \* argument table_name (get_table_url only)
    api_resp,        \* what the remote host answers for FilingSummary.xml
    api_ret,         \* the call's outcome
    api_out,         \* the lines the call printed
    \* ---- numeric coercion of one cell (lines 389-393) ----
    cell_pc,
    cell_in,         \* the cell's text
    cell_out         \* the value after replace/replace/replace/astype(float)

vars == <<pc, fs_url, table_name, table_url, requested, out, rows, index,
          statement_data, df, sections_df, ret_df, result,
          api_pc, api_fn, api_url, api_name, api_resp, api_ret, api_out,
          cell_pc, cell_in, cell_out>>

pipeVars == <<pc, fs_url, table_name, table_url, requested, out, rows, index,
              statement_data, df, sections_df, ret_df, result>>
apiVars  == <<api_pc, api_fn, api_url, api_name, api_resp, api_ret, api_out>>
cellVars == <<cell_pc, cell_in, cell_out>>

(***************************************************************************)
(* Bounds of the model.                                                    *)
(***************************************************************************)
MaxRows    == 4   \* rows of a table document
MaxReports == 3   \* <report> entries of a FilingSummary.xml
MaxLen     == 3   \* characters of an enumerated cell text

(***************************************************************************)
(* Values.                                                                 *)
(***************************************************************************)
Str(s)    == [t |-> "str", s |-> s]          \* a Python str
Num(n, k) == [t |-> "num", n |-> n, k |-> k] \* the float n / 10^k, k minimal
NaNV      == [t |-> "nan"]                   \* the float nan (missing value)
Pos(p)    == [t |-> "pos", p |-> p]          \* an integer key (row position / column number)
NoneV     == [t |-> "none"]                  \* Python None
Raised(e) == [t |-> "raise", e |-> e]        \* an exception leaving the function
Unset     == [t |-> "unset"]                 \* a local not assigned yet

(***************************************************************************)
(* Texts.                                                                  *)
(***************************************************************************)
DigitSeq == <<"0", "1", "2", "3", "4", "5", "6", "7", "8", "9">>
Digits   == {DigitSeq[i] : i \in 1..Len(DigitSeq)}
DigitVal(c) == (CHOOSE i \in 1..Len(DigitSeq) : DigitSeq[i] = c) - 1

\* The characters float() ignores around a number: space, tab, newline,
\* carriage return, form feed, then (written as the characters themselves)
\* vertical tab, NEL 0x85 and the no-break space 0xa0.
FloatWhitespace == {" ", "\t", "\n", "\r", "\f", "", "", " "}

\* The separators 0x1c-0x1f (written as the characters themselves):
\* whitespace for str.strip(), not for float().
Separators == {"", "", "", ""}

\* The characters str.strip() removes.  The Unicode spaces above 0xff
\* (U+1680, U+2000-200A, U+2028, U+2029, U+202F, U+205F, U+3000) cannot be
\* written in a module and are outside the texts of this model.
Whitespace == FloatWhitespace \cup Separators

\* Leading and trailing characters of the set ws removed.
RECURSIVE LStrip(_, _)
LStrip(ws, s) == IF s # <<>> /\ Head(s) \in ws THEN LStrip(ws, Tail(s)) ELSE s

RECURSIVE RStrip(_, _)
RStrip(ws, s) ==
    IF s # <<>> /\ s[Len(s)] \in ws THEN RStrip(ws, SubSeq(s, 1, Len(s) - 1)) ELSE s

\* str.strip() of lines 359, 365, 370.
Strip(s) == RStrip(Whitespace, LStrip(Whitespace, s))

\* The trimming float() does before it reads the number (line 393).
FloatStrip(s) == RStrip(FloatWhitespace, LStrip(FloatWhitespace, s))

\* re.sub('[...]', rep, s): every character of the class replaced by rep.
RECURSIVE ReSubClass(_, _, _)
ReSubClass(class, rep, s) ==
    IF s = <<>> THEN <<>>
    ELSE (IF Head(s) \in class THEN rep ELSE <<Head(s)>>) \o ReSubClass(class, rep, Tail(s))

NaNText == <<"N", "a", "N">>

\* Lines 389-391 on one cell: .replace('[\$,)]', '', regex=True)
\* .replace('[(]', '-', regex=True).replace('', 'NaN', regex=True).  pandas does
\* not use an empty pattern as a regex: the third call replaces a cell that IS
\* the empty string.
ReplaceEmpty(s) == IF s = <<>> THEN NaNText ELSE s

CleanCellKeepDollarMut(s) ==
    ReplaceEmpty(ReSubClass({"("}, <<"-">>, ReSubClass({",", ")"}, <<>>, s)))

CleanCellKeepParenMut(s) ==
    ReplaceEmpty(ReSubClass({"("}, <<"-">>, ReSubClass({"$", ","}, <<>>, s)))

CleanCell(s) ==
    ReplaceEmpty(ReSubClass({"("}, <<"-">>, ReSubClass({"$", ",", ")"}, <<>>, s)))

\* float(s) of line 393: leading and trailing whitespace (FloatWhitespace,
\* not the separators 0x1c-0x1f) is ignored, then an
\* optional sign and a decimal number or "nan" in any case; anything else is
\* a ValueError.  (Exponents, "inf" and "_" digit separators are outside the
\* texts of this model.)
FailV == [t |-> "fail"]   \* ValueError: could not convert string to float

RECURSIVE DigitsToNat(_)
DigitsToNat(s) ==
    IF s = <<>> THEN 0 ELSE 10 * DigitsToNat(SubSeq(s, 1, Len(s) - 1)) + DigitVal(s[Len(s)])

RECURSIVE Reduce(_, _)
Reduce(n, k) == IF k > 0 /\ n % 10 = 0 THEN Reduce(n \div 10, k - 1) ELSE Num(n, k)

IsNanWord(s) ==
    /\ Len(s) = 3
    /\ s[1] \in {"N", "n"} /\ s[2] \in {"A", "a"} /\ s[3] \in {"N", "n"}

ParseFloat(s) ==
    LET text   == FloatStrip(s)
        signed == text # <<>> /\ text[1] \in {"-", "+"}
        neg    == text # <<>> /\ text[1] = "-"
        body   == IF signed THEN Tail(text) ELSE text
        dots   == {i \in 1..Len(body) : body[i] = "."}
        digs   == SelectSeq(body, LAMBDA c : c \in Digits)
        frac   == IF dots = {} THEN 0 ELSE Len(body) - (CHOOSE i \in dots : TRUE)
    IN  IF IsNanWord(body) THEN NaNV
        ELSE IF /\ \A i \in 1..Len(body) : body[i] \in Digits \cup {"."}
                /\ Cardinality(dots) <= 1
                /\ digs # <<>>
             THEN Reduce((IF neg THEN -1 ELSE 1) * DigitsToNat(digs), frac)
             ELSE FailV

\* One data cell of a column >= 1 through lines 389-393.
ConvertCell(s) == ParseFloat(CleanCell(s))


(***************************************************************************)
(* Urls.  A url is its sequence of path segments, the host first:          *)
(* <<"www.sec.gov", "Archives", "R4.htm">> is https://www.sec.gov/         *)
(* Archives/R4.htm.  No segment of the model is a proper prefix of         *)
(* another, so str.replace of "/<segment>" acts on whole segments.         *)
(***************************************************************************)
Url(segs) == [t |-> "url", segs |-> segs]

\* lines 184-185, 198: lst = re.findall(r"\/[^\/]+", url)[-1];
\* url.replace(lst, '/' + new) replaces EVERY occurrence of lst.
UrlReplaceLast(url, new) ==
    LET segs == url.segs
        lst  == segs[Len(segs)]
    IN  Url([i \in 1..Len(segs) |-> IF segs[i] = lst THEN new ELSE segs[i]])

XmlSummary(url) == UrlReplaceLast(url, "FilingSummary.xml")

(***************************************************************************)
(* get_table_info(url, email), lines 180-207.  resp is the remote host's   *)
(* answer: a transport error, a document without <myreports>, or the       *)
(* <report> entries in document order.                                     *)
(***************************************************************************)
GetTableInfo(url, resp) ==
    IF resp.status = "transport_error" THEN Raised("RequestException")   \* line 188
    ELSE IF resp.status = "no_myreports" THEN Raised("AttributeError")   \* line 195: None.find_all
    ELSE LET reports == resp.reports
             kept    == SubSeq(reports, 1, Len(reports) - 1)             \* [:-1]
         IN  IF kept = <<>>
             THEN Raised("KeyError")   \* line 203: pd.DataFrame([])['name_short']
             ELSE [t |-> "info",
                   entries |-> [i \in 1..Len(kept) |->
                       [name |-> kept[i].shortname,
                        url  |-> UrlReplaceLast(url, kept[i].htmlfilename)]]]

NotFoundMsg == "ERROR! Please double check the input table name!"

(***************************************************************************)
(* get_table_url(fs_url, email, table_name), lines 277-283: [ret, out].    *)
(* get_table_info is called outside the try, so its exception leaves       *)
(* get_table_url as well.                                                  *)
(***************************************************************************)
GetTableUrl(url, resp, name) ==
    LET info == GetTableInfo(url, resp)
    IN  IF info.t = "raise" THEN [ret |-> info, out |-> <<>>]
        ELSE LET mask == {i \in 1..Len(info.entries) : info.entries[i].name = name}
             IN  IF mask = {}
                 THEN [ret |-> NoneV, out |-> <<NotFoundMsg>>]      \* .values[0]: IndexError
                 ELSE [ret |-> info.entries[CHOOSE i \in mask : \A j \in mask : i <= j].url,
                       out |-> <<>>]

(***************************************************************************)
(* DataFrames: idx the row keys, cols the column labels, val the rows      *)
(* (each as long as cols), name the index's name.                          *)
(***************************************************************************)
DF(idx, cols, val, name) ==
    [t |-> "df", idx |-> idx, cols |-> cols, val |-> val, name |-> name]

RECURSIVE SortedSeq(_)
SortedSeq(S) ==
    IF S = {} THEN <<>>
    ELSE LET m == CHOOSE x \in S : \A y \in S : x <= y
         IN  <<m>> \o SortedSeq(S \ {m})

\* pd.DataFrame(d).T of lines 380-381: d maps row positions to lists of texts,
\* inserted in ascending position.  Lists of different lengths: ValueError.
FromDictT(d) ==
    LET keys == SortedSeq(DOMAIN d)
        lens == {Len(d[k]) : k \in DOMAIN d}
    IN  IF Cardinality(lens) > 1 THEN Raised("ValueError")
        ELSE LET L == IF lens = {} THEN 0 ELSE CHOOSE l \in lens : TRUE
             IN  DF([k \in 1..Len(keys) |-> Pos(keys[k])],
                    [c \in 1..L |-> Pos(c - 1)],
                    [k \in 1..Len(keys) |-> [c \in 1..L |-> Str(d[keys[k]][c])]],
                    NoneV)

\* lines 389-391: the columns from 1 on, cleaned; column 0 untouched.
CleanFrame(f) ==
    [f EXCEPT !.val = [k \in 1..Len(f.val) |->
        [c \in 1..Len(f.cols) |->
            IF c = 1 THEN f.val[k][c] ELSE Str(CleanCell(f.val[k][c].s))]]]

\* line 393: astype(float) of the cleaned columns.
FloatFrame(f) ==
    [f EXCEPT !.val = [k \in 1..Len(f.val) |->
        [c \in 1..Len(f.cols) |->
            IF c = 1 THEN f.val[k][c] ELSE ParseFloat(f.val[k][c].s)]]]

FloatFails(f) ==
    \E k \in 1..Len(f.val) : \E c \in 2..Len(f.cols) : ParseFloat(f.val[k][c].s) = FailV

\* line 400: pd.concat([a, b]): the rows of a, then those of b; the columns
\* are the union of the two ranges; a cell a frame lacks is nan.
Concat(a, b) ==
    LET L    == IF Len(a.cols) >= Len(b.cols) THEN Len(a.cols) ELSE Len(b.cols)
        pad(r) == [c \in 1..L |-> IF c <= Len(r) THEN r[c] ELSE NaNV]
    IN  DF(a.idx \o b.idx,
           [c \in 1..L |-> Pos(c - 1)],
           [k \in 1..Len(a.val) |-> pad(a.val[k])] \o [k \in 1..Len(b.val) |-> pad(b.val[k])],
           NoneV)

\* line 401: sort_index(): rows in ascending key order (stable).
RECURSIVE SortPerm(_, _)
SortPerm(idx, todo) ==
    IF todo = {} THEN <<>>
    ELSE LET m == CHOOSE i \in todo :
                     \A j \in todo : idx[i].p < idx[j].p \/ (idx[i].p = idx[j].p /\ i <= j)
         IN  <<m>> \o SortPerm(idx, todo \ {m})

SortIndexIdentityMut(f) == f

SortIndex(f) ==
    LET perm == SortPerm(f.idx, DOMAIN f.idx)
    IN  [f EXCEPT !.idx = [k \in 1..Len(perm) |-> f.idx[perm[k]]],
                  !.val = [k \in 1..Len(perm) |-> f.val[perm[k]]]]

\* ' - '.join(texts), line 410.
RECURSIVE JoinDash(_)
JoinDash(texts) ==
    IF texts = <<>> THEN <<>>
    ELSE IF Len(texts) = 1 THEN texts[1]
    ELSE texts[1] \o <<" ", "-", " ">> \o JoinDash(Tail(texts))


(***************************************************************************)
(* Texts of the table documents of the model.                              *)
(***************************************************************************)
T_Empty    == <<>>
T_FY       == <<"F", "Y", "2", "0", "2", "1">>
T_Label    == <<"L", "a", "b", "e", "l">>
T_NetSales == <<"N", "e", "t", " ", "s", "a", "l", "e", "s">>
T_100      == <<"$", "1", "0", "0">>
T_OpEx     == <<"O", "p", "e", "r", "a", "t", "i", "n", "g", " ", "e", "x", "p", "e", "n", "s", "e", "s", ":">>
T_Sec      == <<" ", "S", "e", "c">>
T_Bad      == <<"B", "a", "d">>
T_na       == <<"n", "/", "a", " ">>
T_Junk     == <<"x">>
T_Cost     == <<"C", "o", "s", "t", " ">>
T_Neg      == <<" ", "$", " ", "(", "5", ".", "5", ")">>
T_Padded   == <<"\n", "$", " ", "5", "\t">>
T_Sep      == <<"$", "", "5", "">>
T_1234_50  == <<"$", "1", ",", "2", "3", "4", ".", "5", "0">>
T_56       == <<"(", "5", "6", ".", "0", ")">>
T_1234     == <<"$", "(", "1", ",", "2", "3", "4", ")">>

(***************************************************************************)
(* Rows of a table document: th and td are the raw texts of the row's <th> *)
(* and <td> cells in document order, strong is len(row.find_all('strong')).*)
(***************************************************************************)
Row(th, td, strong) == [th |-> th, td |-> td, strong |-> strong]

R_Head1   == Row(<<T_Empty, T_FY>>, <<>>, 0)
R_Head2   == Row(<<T_Label, T_FY>>, <<>>, 0)
R_HeadS   == Row(<<T_FY>>, <<T_Junk>>, 1)        \* header cell and <strong>, and a stray <td>
R_Data    == Row(<<>>, <<T_NetSales, T_100>>, 0)
R_DataNeg == Row(<<>>, <<T_Cost, T_Neg>>, 0)      \* padded texts, "$ (5.5)" is -5.5
R_DataBad == Row(<<>>, <<T_Bad, T_na>>, 0)       \* "n/a" is no number
R_Data0   == Row(<<>>, <<>>, 0)                  \* <tr></tr>
R_Sec1    == Row(<<>>, <<T_OpEx>>, 1)
R_Sec2    == Row(<<>>, <<T_Sec, T_Empty>>, 2)

RowPool == {R_Head1, R_Head2, R_HeadS, R_Data, R_DataNeg, R_DataBad, R_Data0, R_Sec1, R_Sec2}

Docs == UNION {[1..n -> RowPool] : n \in 0..MaxRows}

StripAll(texts) == [i \in 1..Len(texts) |-> Strip(texts[i])]

EmptyDict == [k \in {} |-> <<>>]
DictSet(d, k, v) == [x \in DOMAIN d \cup {k} |-> IF x = k THEN v ELSE d[x]]

ClassifyError == [t |-> "error"]

(***************************************************************************)
(* One iteration of the loop of lines 352-375 on statement_data.           *)
(***************************************************************************)
ClassifyRejectBothMut(sd, idx, row) ==
    IF Len(row.th) = 0 /\ row.strong = 0
    THEN [sd EXCEPT !.data = DictSet(sd.data, idx, StripAll(row.td))]
    ELSE IF Len(row.th) = 0 /\ row.strong # 0
    THEN [sd EXCEPT !.sections = DictSet(sd.sections, idx, StripAll(row.td))]
    ELSE IF Len(row.th) # 0 /\ row.strong = 0
    THEN [sd EXCEPT !.headers = Append(sd.headers, StripAll(row.th))]
    ELSE ClassifyError

ClassifyBothBucketsMut(sd, idx, row) ==
    IF Len(row.th) = 0 /\ row.strong = 0
    THEN [sd EXCEPT !.data = DictSet(sd.data, idx, StripAll(row.td))]
    ELSE IF Len(row.th) = 0 /\ row.strong # 0
    THEN [sd EXCEPT !.sections = DictSet(sd.sections, idx, StripAll(row.td))]
    ELSE IF Len(row.th) # 0
    THEN [sd EXCEPT !.headers = Append(sd.headers, StripAll(row.th)),
                    !.sections = IF row.strong # 0
                                 THEN DictSet(sd.sections, idx, StripAll(row.td))
                                 ELSE sd.sections]
    ELSE ClassifyError

Classify(sd, idx, row) ==
    IF Len(row.th) = 0 /\ row.strong = 0                                     \* line 358
    THEN [sd EXCEPT !.data = DictSet(sd.data, idx, StripAll(row.td))]
    ELSE IF Len(row.th) = 0 /\ row.strong # 0                                \* line 363
    THEN [sd EXCEPT !.sections = DictSet(sd.sections, idx, StripAll(row.td))]
    ELSE IF Len(row.th) # 0                                                  \* line 369
    THEN [sd EXCEPT !.headers = Append(sd.headers, StripAll(row.th))]
    ELSE ClassifyError                                                       \* line 373

(***************************************************************************)
(* The lines display_table prints.                                         *)
(***************************************************************************)
UrlLine       == "<table_url>"       \* line 336 prints the url (or None)
RequestedMsg  == "Requested the web content..."
RequestErr    == "ERROR!!!We encountered an error when requesting the web content!"
ParseErr      == "ERROR!!!We encountered an error in parsing the table!"
ParsedMsg     == "Parsed the table..."
StoredMsg     == "Stored the data and sections into 2 DataFrames..."
StoreErr      == "ERROR!!!We encountered an error in storing the data and sections into 2 DataFrames!"
ConvertedMsg  == "Converted string into digit..."
ConvertErr    == "ERROR!!!We encountered an error in converting string into digit!"
MergedMsg     == "Merged 2 DataFrames..."
HeaderErr     == "We encountered an error in framing the header"
RenamedMsg    == "Renamed indices and columns..."
RenameErr     == "ERROR!!!We encountered an error in renaming indices and columns!"
SuccessMsg    == "SUCCESS!"

(***************************************************************************)
(* Lines 407-428 on the merged frame f: [ret, out].                        *)
(***************************************************************************)
ColumnHeader(headers) ==
    IF Len(headers) = 2 THEN headers[2]              \* line 415: headers[1]
    ELSE IF Len(headers) = 1 THEN Tail(headers[1])   \* line 417: headers[0][1:]
    ELSE <<>>                                        \* line 418: no header

RenameFrame(f, headers) ==
    IF Len(f.cols) = 0
    THEN [ret |-> f, frame |-> f, out |-> <<RenameErr>>]   \* line 408: ret_df[0] is a KeyError
    ELSE
    LET indexed == [f EXCEPT !.idx  = [k \in 1..Len(f.val) |-> f.val[k][1]],
                             !.name = Pos(0)]                               \* line 408
        dropped == [indexed EXCEPT !.cols = Tail(f.cols),
                                   !.val  = [k \in 1..Len(f.val) |-> Tail(f.val[k])]]  \* line 409
    IN  IF headers = <<>>
        THEN [ret |-> dropped, frame |-> dropped,
              out |-> <<RenameErr>>]                   \* line 410: headers[0] is an IndexError
        ELSE
        LET named  == [dropped EXCEPT !.name = Str(JoinDash(headers[1]))]   \* line 410
            header == ColumnHeader(headers)
        IN  IF Len(headers) \notin {1, 2}
            THEN [ret |-> NoneV, frame |-> named, out |-> <<HeaderErr>>]    \* lines 419-420
            ELSE IF Len(header) # Len(named.cols)
            THEN [ret |-> named, frame |-> named,
                  out |-> <<RenameErr>>]               \* line 421: length mismatch, ValueError
            ELSE LET renamed == [named EXCEPT !.cols = [c \in 1..Len(header) |-> Str(header[c])]]
                 IN  [ret |-> renamed, frame |-> renamed, out |-> <<RenamedMsg, SuccessMsg>>]

(***************************************************************************)
(* Inputs.                                                                 *)
(***************************************************************************)
StatementUrl  == Url(<<"www.sec.gov", "Archives", "R4.htm">>)
RepeatedUrl   == Url(<<"www.sec.gov", "R4.htm", "R4.htm">>)   \* the last segment occurs twice

Report(name, file) == [shortname |-> name, htmlfilename |-> file]
OkResp(reports)    == [status |-> "ok", reports |-> reports]
ErrorResp          == [status |-> "transport_error", reports |-> <<>>]
NoReportsResp      == [status |-> "no_myreports", reports |-> <<>>]

ReportPool == {Report(n, f) : n \in {"BALANCE SHEETS", "CASH FLOWS"}, f \in {"R2.htm", "R3.htm"}}
Names      == {"BALANCE SHEETS", "CASH FLOWS", "Cover Page"}

IndexResponses ==
    {ErrorResp, NoReportsResp}
        \cup {OkResp(r) : r \in UNION {[1..n -> ReportPool] : n \in 0..MaxReports}}

\* The index documents display_table meets in the model: a usual one, one
\* that holds the trailing entry only, and a failed fetch.
PipeResponses ==
    {OkResp(<<Report("BALANCE SHEETS", "R2.htm"), Report("CASH FLOWS", "R3.htm"),
              Report("All Reports", "R9.htm")>>),
     OkResp(<<Report("All Reports", "R9.htm")>>),
     ErrorResp}

EmptyStatementData == [headers |-> <<>>, sections |-> EmptyDict, data |-> EmptyDict]

(***************************************************************************)
(* display_table(fs_url, table_name, email)                                *)
(***************************************************************************)
PipeIdle ==
    /\ pc = "idle" /\ fs_url = Unset /\ table_name = "" /\ table_url = Unset
    /\ requested = <<>> /\ out = <<>> /\ rows = <<>> /\ index = 0
    /\ statement_data = Unset /\ df = Unset /\ sections_df = Unset /\ ret_df = Unset
    /\ result = Unset

PipeInit ==
    /\ pc = "lookup"
    /\ fs_url = StatementUrl
    /\ table_name \in {"BALANCE SHEETS", "Cover Page"}
    /\ table_url = Unset
    /\ requested = <<>> /\ out = <<>> /\ rows = <<>> /\ index = 0
    /\ statement_data = Unset /\ df = Unset /\ sections_df = Unset /\ ret_df = Unset
    /\ result = Unset

\* lines 335-342: get_table_url, print, the empty statement_data.
Lookup ==
    /\ pc = "lookup"
    /\ \E resp \in PipeResponses :
         LET r == GetTableUrl(fs_url, resp, table_name)
         IN  /\ requested' = Append(requested, XmlSummary(fs_url))
             /\ IF r.ret.t = "raise"
                THEN /\ pc' = "raised"
                     /\ result' = r.ret
                     /\ UNCHANGED <<table_url, out, statement_data>>
                ELSE /\ pc' = "fetch"
                     /\ table_url' = r.ret
                     /\ out' = out \o r.out \o <<UrlLine>>
                     /\ statement_data' = EmptyStatementData
                     /\ UNCHANGED result
    /\ UNCHANGED <<fs_url, table_name, rows, index, df, sections_df, ret_df>>
    /\ UNCHANGED <<apiVars, cellVars>>

\* lines 344-352: requests.get(table_url), the parse, and the rows of the
\* document's first table.  requests.get(None) raises (MissingSchema) inside
\* the try; a document without a <table> raises at line 352, outside any try.
Fetch ==
    /\ pc = "fetch"
    /\ requested' = Append(requested, table_url)
    /\ \/ /\ table_url = NoneV
          /\ out' = Append(out, RequestErr)
          /\ result' = NoneV
          /\ pc' = "returned"
          /\ UNCHANGED rows
       \/ /\ table_url # NoneV
          /\ out' = Append(out, RequestErr)        \* the transport fails
          /\ result' = NoneV
          /\ pc' = "returned"
          /\ UNCHANGED rows
       \/ /\ table_url # NoneV
          /\ out' = Append(out, RequestedMsg)      \* report_soup.table is None
          /\ result' = Raised("AttributeError")
          /\ pc' = "raised"
          /\ UNCHANGED rows
       \/ /\ table_url # NoneV
          /\ \E doc \in Docs : rows' = doc
          /\ out' = Append(out, RequestedMsg)
          /\ pc' = "classify"
          /\ UNCHANGED result
    /\ UNCHANGED <<fs_url, table_name, table_url, index, statement_data, df, sections_df, ret_df>>
    /\ UNCHANGED <<apiVars, cellVars>>

\* lines 352-375: one iteration of the loop.
ClassifyRow ==
    /\ pc = "classify"
    /\ index < Len(rows)
    /\ LET sd == Classify(statement_data, index, rows[index + 1])
       IN  IF sd = ClassifyError
           THEN /\ out' = Append(out, ParseErr)
                /\ result' = NoneV
                /\ pc' = "returned"
                /\ UNCHANGED <<statement_data, index>>
           ELSE /\ statement_data' = sd
                /\ index' = index + 1
                /\ UNCHANGED <<out, result, pc>>
    /\ UNCHANGED <<fs_url, table_name, table_url, requested, rows, df, sections_df, ret_df>>
    /\ UNCHANGED <<apiVars, cellVars>>

\* lines 377-385: the loop is over; the two frames.
StoreFrames ==
    /\ pc = "classify"
    /\ index = Len(rows)
    /\ LET d == FromDictT(statement_data.data)
           s == FromDictT(statement_data.sections)
       IN  IF d.t = "raise" \/ s.t = "raise"
           THEN /\ out' = out \o <<ParsedMsg, StoreErr>>
                /\ result' = NoneV
                /\ pc' = "returned"
                /\ df' = IF d.t = "raise" THEN df ELSE d
                /\ UNCHANGED sections_df
           ELSE /\ out' = out \o <<ParsedMsg, StoredMsg>>
                /\ df' = d
                /\ sections_df' = s
                /\ pc' = "convert"
                /\ UNCHANGED result
    /\ UNCHANGED <<fs_url, table_name, table_url, requested, rows, index, statement_data, ret_df>>
    /\ UNCHANGED <<apiVars, cellVars>>

\* lines 387-397: the cleaned strings are stored (line 389) before
\* astype(float) (line 393) can fail; then the cleaned df is returned.
ConvertResultNoneMut(cleaned) == NoneV

ConvertFailureResult(cleaned) == cleaned       \* line 397: return df

Convert ==
    /\ pc = "convert"
    /\ LET cleaned == CleanFrame(df)
       IN  IF FloatFails(cleaned)
           THEN /\ df' = cleaned
                /\ out' = Append(out, ConvertErr)
                /\ result' = ConvertFailureResult(cleaned)
                /\ pc' = "returned"
           ELSE /\ df' = FloatFrame(cleaned)
                /\ out' = Append(out, ConvertedMsg)
                /\ pc' = "merge"
                /\ UNCHANGED result
    /\ UNCHANGED <<fs_url, table_name, table_url, requested, rows, index, statement_data,
                   sections_df, ret_df>>
    /\ UNCHANGED <<apiVars, cellVars>>

\* lines 399-405: concat and sort_index; neither raises on these frames.
Merge ==
    /\ pc = "merge"
    /\ ret_df' = SortIndex(Concat(df, sections_df))
    /\ out' = Append(out, MergedMsg)
    /\ pc' = "rename"
    /\ UNCHANGED <<fs_url, table_name, table_url, requested, rows, index, statement_data,
                   df, sections_df, result>>
    /\ UNCHANGED <<apiVars, cellVars>>

\* lines 407-428.
Rename ==
    /\ pc = "rename"
    /\ LET r == RenameFrame(ret_df, statement_data.headers)
       IN  /\ out' = out \o r.out
           /\ result' = r.ret
           /\ ret_df' = r.frame
    /\ pc' = "returned"
    /\ UNCHANGED <<fs_url, table_name, table_url, requested, rows, index, statement_data,
                   df, sections_df>>
    /\ UNCHANGED <<apiVars, cellVars>>

(***************************************************************************)
(* Direct calls of get_table_info and get_table_url.                       *)
(***************************************************************************)
ApiIdle ==
    /\ api_pc = "idle" /\ api_fn = "" /\ api_url = Unset /\ api_name = ""
    /\ api_resp = Unset /\ api_ret = Unset /\ api_out = <<>>

ApiInit ==
    /\ api_pc = "ready"
    /\ api_fn \in {"get_table_info", "get_table_url"}
    /\ api_url \in {StatementUrl, RepeatedUrl}
    /\ api_name \in Names
    /\ api_resp \in IndexResponses
    /\ api_ret = Unset
    /\ api_out = <<>>

CallGetTableInfo ==
    /\ api_pc = "ready" /\ api_fn = "get_table_info"
    /\ api_ret' = GetTableInfo(api_url, api_resp)
    /\ api_pc' = "done"
    /\ UNCHANGED <<api_fn, api_url, api_name, api_resp, api_out>>
    /\ UNCHANGED <<pipeVars, cellVars>>

CallGetTableUrl ==
    /\ api_pc = "ready" /\ api_fn = "get_table_url"
    /\ api_ret' = GetTableUrl(api_url, api_resp, api_name).ret
    /\ api_out' = GetTableUrl(api_url, api_resp, api_name).out
    /\ api_pc' = "done"
    /\ UNCHANGED <<api_fn, api_url, api_name, api_resp>>
    /\ UNCHANGED <<pipeVars, cellVars>>

(***************************************************************************)
(* The coercion of one data cell of a column >= 1 (lines 389-393).         *)
(***************************************************************************)
CellChars == {"$", ",", "(", ")", ".", "-", "0", "5", " "}

CellTexts ==
    UNION {[1..n -> CellChars] : n \in 0..MaxLen}
        \cup {T_1234_50, T_56, T_1234, T_100, T_na, T_Empty, T_Neg, T_Padded, T_Sep}

CellIdle == cell_pc = "idle" /\ cell_in = <<>> /\ cell_out = Unset

CellInit == cell_pc = "ready" /\ cell_in \in CellTexts /\ cell_out = Unset

ConvertOneCell ==
    /\ cell_pc = "ready"
    /\ cell_out' = ConvertCell(Strip(cell_in))
    /\ cell_pc' = "done"
    /\ UNCHANGED cell_in
    /\ UNCHANGED <<pipeVars, apiVars>>

(***************************************************************************)
(* Specifications.                                                         *)
(***************************************************************************)
Init == PipeInit /\ ApiIdle /\ CellIdle
Next == Lookup \/ Fetch \/ ClassifyRow \/ StoreFrames \/ Convert \/ Merge \/ Rename
Spec == Init /\ [][Next]_vars

IndexInit == PipeIdle /\ ApiInit /\ CellIdle
IndexNext == CallGetTableInfo \/ CallGetTableUrl
IndexSpec == IndexInit /\ [][IndexNext]_vars

CellSpecInit == PipeIdle /\ ApiIdle /\ CellInit
CellNext == ConvertOneCell
CellSpec == CellSpecInit /\ [][CellNext]_vars


(***************************************************************************)
(* Vocabulary of the properties.                                           *)
(***************************************************************************)
LastOut == IF out = <<>> THEN "" ELSE out[Len(out)]
Printed(m) == \E i \in 1..Len(out) : out[i] = m

Returned == pc = "returned"
Complete == Returned /\ LastOut = SuccessMsg      \* line 427-428 was reached

Positions == 0..(Len(rows) - 1)
RowAt(p)  == rows[p + 1]

IsHeaderRow(p)  == RowAt(p).th # <<>>
IsSectionRow(p) == RowAt(p).th = <<>> /\ RowAt(p).strong # 0
IsDataRow(p)    == RowAt(p).th = <<>> /\ RowAt(p).strong = 0
BothRow(p)      == RowAt(p).th # <<>> /\ RowAt(p).strong # 0

\* The text of a row's first <td>, or the missing value when it has none.
Col0(row) == IF row.td = <<>> THEN NaNV ELSE Str(Strip(row.td[1]))

BodyPositions == SortedSeq({p \in Positions : IsSectionRow(p) \/ IsDataRow(p)})

StrAll(texts) == [i \in 1..Len(texts) |-> Str(texts[i])]

\* The loop of lines 352-375 is over.
LoopOver ==
    \/ pc \in {"convert", "merge", "rename"}
    \/ Returned /\ (Printed(ParsedMsg) \/ Printed(ParseErr))

\* Lines 407-425 ran.
RenameRan == Returned /\ Printed(MergedMsg)

(***************************************************************************)
(* C1.  When display_table returns the complete table, its row labels are  *)
(* the first-cell texts of exactly the section and data rows of the        *)
(* document, in ascending row position; header rows give no label.  (A row *)
(* without any <td> has the missing value as its label.)                   *)
(***************************************************************************)
C1_RowLabelsInDocumentOrder ==
    Complete =>
        /\ result.t = "df"
        /\ result.idx = [k \in 1..Len(BodyPositions) |-> Col0(RowAt(BodyPositions[k]))]

\* A complete table whose document has a header row between body rows and a
\* data row between two section rows.
C1_Witness ==
    /\ Complete
    /\ \E p, q, r \in Positions :
         p < q /\ q < r /\ IsSectionRow(p) /\ IsDataRow(q) /\ IsSectionRow(r)

BucketsPartition ==
    LET sd   == statement_data
        used == DOMAIN sd.data \cup DOMAIN sd.sections
        rest == SortedSeq(Positions \ used)
    IN  /\ DOMAIN sd.data \cap DOMAIN sd.sections = {}
        /\ used \subseteq Positions
        /\ Len(sd.headers) + Cardinality(DOMAIN sd.data) + Cardinality(DOMAIN sd.sections)
              = Len(rows)
        /\ Len(sd.headers) = Len(rest)
        /\ \A k \in 1..Len(rest) :
              /\ k <= Len(sd.headers)
              /\ sd.headers[k] = StripAll(RowAt(rest[k]).th)
        /\ \A p \in DOMAIN sd.data : IsDataRow(p) /\ sd.data[p] = StripAll(RowAt(p).td)
        /\ \A p \in DOMAIN sd.sections :
              IsSectionRow(p) /\ sd.sections[p] = StripAll(RowAt(p).td)

(***************************************************************************)
(* C2.  After the classification loop every row position is in exactly one *)
(* of the three buckets: sections and data hold disjoint sets of           *)
(* positions, the header bucket holds, in order, the header cells of       *)
(* exactly the remaining rows, and the sizes sum to the number of rows; or *)
(* else the operation reported a row-classification failure.               *)
(***************************************************************************)
C2_BucketsPartitionRows ==
    LoopOver => BucketsPartition \/ (result = NoneV /\ LastOut = ParseErr)

C2_Witness ==
    /\ LoopOver
    /\ statement_data.headers # <<>>
    /\ DOMAIN statement_data.data # {}
    /\ DOMAIN statement_data.sections # {}
    /\ \E p \in Positions : BothRow(p)

(***************************************************************************)
(* C3 as stated: a row with both a <th> and a <strong> is a hard failure:  *)
(* the loop never gets past it and display_table returns None after        *)
(* reporting the parsing error.                                            *)
(***************************************************************************)
C3_Original ==
    \A p \in Positions :
        BothRow(p) =>
            /\ index <= p
            /\ Returned => (result = NoneV /\ LastOut = ParseErr)

HeaderRank(p) == Cardinality({q \in Positions : q <= p /\ IsHeaderRow(q)})

(***************************************************************************)
(* C3 amended.  A row with both a <th> and a <strong> is classified as a   *)
(* header row: its <th> texts are appended to the header rows, it is in    *)
(* neither the section nor the data bucket, and the parsing failure of     *)
(* line 374 is never reported.                                             *)
(***************************************************************************)
C3_BothIsHeader ==
    /\ ~Printed(ParseErr)
    /\ \A p \in Positions :
         (BothRow(p) /\ p < index) =>
            /\ p \notin DOMAIN statement_data.data
            /\ p \notin DOMAIN statement_data.sections
            /\ HeaderRank(p) <= Len(statement_data.headers)
            /\ statement_data.headers[HeaderRank(p)] = StripAll(RowAt(p).th)

\* A complete table from a document with such a row.
C3_Witness == Complete /\ \E p \in Positions : BothRow(p)

(***************************************************************************)
(* C4 as stated.  Header arity: with exactly 2 header rows the second is   *)
(* the column headers; with exactly 1 the column headers are that row      *)
(* minus its first cell; with 0 or with 3 or more the operation reports    *)
(* the header-layout failure and returns no table.                         *)
(***************************************************************************)
C4_Original ==
    LET h == statement_data.headers
    IN  /\ (Complete /\ Len(h) = 2) => result.cols = StrAll(h[2])
        /\ (Complete /\ Len(h) = 1) => result.cols = StrAll(Tail(h[1]))
        /\ (RenameRan /\ Len(h) \notin {1, 2}) => (result = NoneV /\ LastOut = HeaderErr)

IsLabel(v) == v.t \in {"str", "nan"}

FullyFormed(r) ==
    /\ r.t = "df"
    /\ Len(r.idx) = Len(BodyPositions)
    /\ \A k \in 1..Len(r.idx) : IsLabel(r.idx[k])
    /\ \A c \in 1..Len(r.cols) : r.cols[c].t = "str"
    /\ \A k \in 1..Len(r.idx) :
          IsDataRow(BodyPositions[k]) =>
              \A c \in 1..Len(r.cols) : r.val[k][c].t \in {"num", "nan"}

(***************************************************************************)
(* C5 as stated.  display_table never returns a partial table: its result  *)
(* is the fully formed final table or a failure (None).                    *)
(***************************************************************************)
C5_Original == Returned => (result = NoneV \/ FullyFormed(result))

DataPositions == SortedSeq({p \in Positions : IsDataRow(p)})

HalfConverted(r) ==
    /\ r.t = "df"
    /\ r.idx = [k \in 1..Len(DataPositions) |-> Pos(DataPositions[k])]
    /\ \A c \in 1..Len(r.cols) : r.cols[c] = Pos(c - 1)
    /\ \A k \in 1..Len(r.idx) : \A c \in 1..Len(r.cols) : r.val[k][c].t = "str"
    /\ \E k \in 1..Len(r.idx) : \E c \in 2..Len(r.cols) : ParseFloat(r.val[k][c].s) = FailV

MergedUnrenamed(r) ==
    /\ r.t = "df"
    /\ Len(r.idx) = Len(BodyPositions)
    /\ \A c \in 1..Len(r.cols) : r.cols[c].t = "pos"
    /\ \/ r.idx = [k \in 1..Len(BodyPositions) |-> Pos(BodyPositions[k])]
       \/ r.idx = [k \in 1..Len(BodyPositions) |-> Col0(RowAt(BodyPositions[k]))]

(***************************************************************************)
(* C5 amended.  display_table returns the fully formed table only when it  *)
(* printed SUCCESS!.  When the numeric coercion fails it returns the       *)
(* half-processed frame of the data rows alone (keyed by row position, no  *)
(* section rows, the cells of columns >= 1 cleaned but still strings);     *)
(* when the renaming fails (no column 0, no header row, or a header of the *)
(* wrong length) it returns the merged, position-ordered frame whose       *)
(* columns are still numbered; after every other failure it returns None.  *)
(***************************************************************************)
C5_ResultByFailure ==
    Returned =>
        /\ LastOut \in {SuccessMsg, ConvertErr, RenameErr, RequestErr, StoreErr, HeaderErr}
        /\ LastOut = SuccessMsg => FullyFormed(result)
        /\ LastOut = ConvertErr => HalfConverted(result)
        /\ LastOut = RenameErr  => MergedUnrenamed(result)
        /\ LastOut \in {RequestErr, StoreErr, HeaderErr} => result = NoneV

\* Each kind of result has been returned: here the half-processed data frame.
C5_Witness == Returned /\ LastOut = ConvertErr /\ result.t = "df" /\ Len(rows) > 1


Remaining(s) ==
    LET kept == SelectSeq(s, LAMBDA c : c \notin {"$", ",", ")"})
    IN  [i \in 1..Len(kept) |-> IF kept[i] = "(" THEN "-" ELSE kept[i]]

(***************************************************************************)
(* C6.  The coercion of a data cell of a column >= 1 deletes every "$",    *)
(* "," and ")", replaces "(" by "-", gives the missing value (nan) for a   *)
(* text that is then empty and otherwise the number the remaining text     *)
(* denotes: "$1,234.50" gives 1234.50, "(56.0)" gives -56.0, "" gives      *)
(* missing, "$(1,234)" gives -1234; the result is never an empty string.   *)
(***************************************************************************)
C6_NumericNormalization ==
    cell_pc = "done" =>
        /\ cell_out # Str(<<>>)
        /\ cell_out.t \in {"num", "nan", "fail"}
        /\ Remaining(Strip(cell_in)) = <<>> => cell_out = NaNV
        /\ Remaining(Strip(cell_in)) # <<>> => cell_out = ParseFloat(Remaining(Strip(cell_in)))
        /\ cell_in = T_1234_50 => cell_out = Num(12345, 1)
        /\ cell_in = T_56      => cell_out = Num(-56, 0)
        /\ cell_in = T_Empty   => cell_out = NaNV
        /\ cell_in = T_1234    => cell_out = Num(-1234, 0)
        /\ cell_in = T_Neg     => cell_out = Num(-55, 1)
        /\ cell_in = T_Padded  => cell_out = Num(5, 0)
        /\ cell_in = T_Sep     => cell_out = FailV

C6_Witness == cell_pc = "done" /\ cell_in = T_1234 /\ cell_out = Num(-1234, 0)

(***************************************************************************)
(* C7 as stated.  get_table_info on an index document with N report        *)
(* entries (N >= 1) returns exactly N-1 (name, url) pairs: the first N-1   *)
(* entries in document order, the last entry dropped.                      *)
(***************************************************************************)
C7_Original ==
    (api_pc = "done" /\ api_fn = "get_table_info" /\ api_resp.status = "ok"
        /\ Len(api_resp.reports) >= 1) =>
        /\ api_ret.t = "info"
        /\ Len(api_ret.entries) = Len(api_resp.reports) - 1
        /\ \A i \in 1..(Len(api_resp.reports) - 1) :
              /\ api_ret.entries[i].name = api_resp.reports[i].shortname
              /\ api_ret.entries[i].url =
                    UrlReplaceLast(api_url, api_resp.reports[i].htmlfilename)

(***************************************************************************)
(* C8 as stated.  get_table_url returns the url of the first index entry,  *)
(* in document order, whose name is exactly the requested name; when no    *)
(* index entry (the last one aside) has that name it returns None, and     *)
(* never a fetch-layer error.                                              *)
(***************************************************************************)
C8_Original ==
    (api_pc = "done" /\ api_fn = "get_table_url" /\ api_resp.status = "ok"
        /\ Len(api_resp.reports) >= 1) =>
        LET reps == api_resp.reports
            hits == {i \in 1..(Len(reps) - 1) : reps[i].shortname = api_name}
        IN  IF hits = {}
            THEN api_ret = NoneV /\ api_out = <<NotFoundMsg>>
            ELSE api_ret = UrlReplaceLast(api_url,
                     reps[CHOOSE i \in hits : \A j \in hits : i <= j].htmlfilename)

ScenarioRows == <<R_Head1, R_Head2, R_Data, R_Sec1>>

(***************************************************************************)
(* C9 as stated.  For the document with the header rows ["", "FY2021"] and *)
(* ["Label", "FY2021"], the data row ["Net sales", "$100"] and the section *)
(* row ["Operating expenses:"], display_table returns the table with row   *)
(* labels ["Net sales", "Operating expenses:"], column headers ["FY2021"]  *)
(* and the cell ("Net sales", "FY2021") equal to 100.0.                    *)
(***************************************************************************)
C9_Original ==
    (Returned /\ rows = ScenarioRows) =>
        /\ result.t = "df"
        /\ result.idx = <<Str(T_NetSales), Str(T_OpEx)>>
        /\ result.cols = <<Str(T_FY)>>
        /\ result.val[1][1] = Num(100, 0)

(***************************************************************************)
(* C9 amended.  For that document display_table returns a table with row   *)
(* labels ["Net sales", "Operating expenses:"] in that order and 100.0 in  *)
(* the "Net sales" row, but the column headers are not set: the second     *)
(* header row has two cells for the one remaining column, the renaming     *)
(* fails (line 421) and the frame is returned with its column still        *)
(* numbered 1, after the renaming error was printed.                       *)
(***************************************************************************)
C9_ScenarioUnrenamed ==
    (Returned /\ rows = ScenarioRows) =>
        /\ result.t = "df"
        /\ result.idx = <<Str(T_NetSales), Str(T_OpEx)>>
        /\ result.cols = <<Pos(1)>>
        /\ result.val = <<  <<Num(100, 0)>>, <<NaNV>>  >>
        /\ result.name = Str(<<" ", "-", " ">> \o T_FY)
        /\ LastOut = RenameErr

C9_Witness == Returned /\ rows = ScenarioRows /\ result.t = "df"

(***************************************************************************)
(* C10 as stated.  The stages run in the order lookup, fetch of the table  *)
(* document, classification, normalization, assembly, and a failed stage   *)
(* ends the run.  In particular, when the lookup finds no entry, no table  *)
(* document is requested and no fetch failure is reported.                 *)
(***************************************************************************)
C10_Original ==
    table_url = NoneV =>
        /\ pc \in {"fetch", "returned"}
        /\ \A i \in 1..Len(requested) : requested[i] # NoneV
        /\ ~Printed(RequestErr)

====
